---- MODULE Spec2Model ----
(***************************************************************************)
(* ARM / AArch64 CPU feature detection of ring: src/cpu/arm.rs and         *)
(* src/cpu/arm/darwin.rs.                                                  *)
(*                                                                         *)
(* A u32 is modelled as the set of the positions of its set bits, a subset *)
(* of 0 .. 31: `a & b` is intersection, `a | b` is union, `!a` is the      *)
(* complement in 0 .. 31 and `1 << n` is {n}.  Value(w) gives the number.  *)
(***************************************************************************)
EXTENDS Integers, Sequences, FiniteSets, TLC

\* ------------------------------------------------------------------ bounds
\* Number of threads that call get_or_init().
NThreads == 2
\* Longest name buffer handed to detect_feature in SpecDetectFeature.
MaxNameLen == 3
\* The counters of init runs and of writes saturate here.
MaxCount == 3

\* ------------------------------------------------------------- u32 words
\* Feature.mask is a u32.
WordWidth == 32
Bits == 0 .. (WordWidth - 1)

BitAnd(a, b) == a \cap b
BitOr(a, b) == a \cup b
BitNot(a) == Bits \ a
Shl1(n) == {n}

RECURSIVE Pow2(_)
Pow2(n) == IF n = 0 THEN 1 ELSE 2 * Pow2(n - 1)

RECURSIVE Value(_)
\* The number a word stands for (used on words with bits below 31 only).
Value(w) == IF w = {} THEN 0
            ELSE LET b == CHOOSE x \in w : TRUE IN Pow2(b) + Value(w \ {b})

\* What OPENSSL_armcap_P holds before the only write: no u32 value.
Uninit == {WordWidth}

\* ------------------------------------------------------ Feature Registry
NEON == [name |-> "NEON", target_feature_name |-> "neon", mask |-> Shl1(0)]
\* Mutant: AES is given the bit of SHA256.
AES_SharesBit == [name |-> "AES", target_feature_name |-> "aes", mask |-> Shl1(4)]

AES == [name |-> "AES", target_feature_name |-> "aes", mask |-> Shl1(2)]
SHA256 == [name |-> "SHA256", target_feature_name |-> "sha2", mask |-> Shl1(4)]
PMULL == [name |-> "PMULL", target_feature_name |-> "aes", mask |-> Shl1(5)]
SHA512 == [name |-> "SHA512", target_feature_name |-> "sha3", mask |-> Shl1(6)]

\* features! { ... } for target_arch = "aarch64" and for target_arch = "arm".
ALL_FEATURES(arch) == IF arch = "aarch64"
                      THEN <<NEON, AES, SHA256, PMULL, SHA512>>
                      ELSE <<NEON>>

FeatureSet(arch) == {ALL_FEATURES(arch)[i] : i \in 1 .. Len(ALL_FEATURES(arch))}

\* The target_feature names the features! block of the architecture tests.
TargetFeatureNames(arch) == {f.target_feature_name : f \in FeatureSet(arch)}

\* ------------------------------------------------- compiled configuration
Archs == {"aarch64", "arm"}
TargetOses == {"macos", "fuchsia", "linux", "windows", "none"}
\* target_pointer_width, in bits, and target_endian.
PointerWidths == {32, 64}
Endians == {"little", "big"}

\* cfg_if! { ... }: the detect module compiled in.
detect(c) ==
    IF c.arch = "aarch64" /\ c.os = "macos" THEN "darwin"
    ELSE IF c.arch = "aarch64" /\ c.os = "fuchsia" THEN "fuchsia"
    ELSE IF c.os = "linux" THEN "linux"
    ELSE IF c.arch = "aarch64" /\ c.os = "windows" THEN "windows"
    ELSE "fallback"

\* darwin.rs
MIN_STATIC_FEATURES == BitOr(BitOr(NEON.mask, AES.mask), BitOr(SHA256.mask, PMULL.mask))
DarwinForceDynamicDetection == BitNot(MIN_STATIC_FEATURES)

\* linux.rs, fuchsia.rs and windows.rs are not part of the sources at hand:
\* they force nothing to dynamic detection.
OtherForceDynamicDetection == {}

FORCE_DYNAMIC_DETECTION(c) ==
    IF detect(c) = "darwin" THEN DarwinForceDynamicDetection
    ELSE IF detect(c) = "fallback" THEN {}
    ELSE OtherForceDynamicDetection

ARMCAP_STATIC_DETECTED(c) ==
    UNION {IF f.target_feature_name \in c.tf THEN f.mask ELSE {} : f \in FeatureSet(c.arch)}

\* Mutant: the forced-dynamic bits are not removed from the static mask.
ARMCAP_STATIC_NotForced(c) == ARMCAP_STATIC_DETECTED(c)

ARMCAP_STATIC(c) == BitAnd(ARMCAP_STATIC_DETECTED(c), BitNot(FORCE_DYNAMIC_DETECTION(c)))

\* ------------------------------------------------ compile-time assertions
AARCH64_HAS_NEON(c) ==
    (BitAnd(ARMCAP_STATIC(c), NEON.mask) = NEON.mask) \/ c.arch # "aarch64"

FORCE_DYNAMIC_DETECTION_HONORED(c) ==
    BitAnd(ARMCAP_STATIC(c), FORCE_DYNAMIC_DETECTION(c)) = {}

AARCH64_APPLE_TARGETS_EXPECTED_FEATURES(c) ==
    BitAnd(ARMCAP_STATIC(c), MIN_STATIC_FEATURES) = MIN_STATIC_FEATURES

AARCH64_APPLE_DARWIN_TARGETS_EXPECTED_FEATURES(c) ==
    ARMCAP_STATIC(c) = MIN_STATIC_FEATURES

ASSERT_NEON_DETECTED(c) == BitAnd(ARMCAP_STATIC(c), NEON.mask) = NEON.mask

\* mod abi_assumptions.  size_of::<usize>() and size_of::<&'static u8>() are
\* the target's pointer width, in bytes.
ASSUMED_POINTER_SIZE(c) == IF c.arch = "aarch64" THEN 8 ELSE 4

size_of_usize(c) == c.pointer_width \div 8

size_of_ref(c) == c.pointer_width \div 8

ASSUMED_USIZE_SIZE(c) == size_of_usize(c) = ASSUMED_POINTER_SIZE(c)

ASSUMED_REF_SIZE(c) == size_of_ref(c) = ASSUMED_POINTER_SIZE(c)

ASSUMED_ENDIANNESS(c) == c.endian = "little"

\* The build produces a binary iff every const assertion compiled in holds.
BuildAccepts(c) ==
    /\ ASSUMED_USIZE_SIZE(c)
    /\ ASSUMED_REF_SIZE(c)
    /\ ASSUMED_ENDIANNESS(c)
    /\ AARCH64_HAS_NEON(c)
    /\ FORCE_DYNAMIC_DETECTION_HONORED(c)
    /\ detect(c) = "darwin" =>
          /\ AARCH64_APPLE_TARGETS_EXPECTED_FEATURES(c)
          /\ AARCH64_APPLE_DARWIN_TARGETS_EXPECTED_FEATURES(c)
          /\ ASSERT_NEON_DETECTED(c)

\* ------------------------------------------------------- Darwin detector
\* b"hw.optional.armv8_2_sha512\0"
SHA512_NAME == <<104, 119, 46, 111, 112, 116, 105, 111, 110, 97, 108, 46, 97, 114, 109, 118, 56, 95, 50, 95, 115, 104, 97, 53, 49, 50, 0>>

\* mem::size_of_val(&value) for value: c_int.
SizeOfCInt == 4

\* What libc::sysctlbyname can answer: its return code, the length it stores
\* through `len` and the integer it stores through `value_ptr`.
SysctlResponses == [rc : {-1, 0}, len : {0, SizeOfCInt, 2 * SizeOfCInt}, value : {0, 1}]
\* Before the query: value is 0 and len is the size of value.
NoQuery == [rc |-> 0, len |-> SizeOfCInt, value |-> 0]

\* name.iter().position(|&b| b == 0): the 0-based index of the first nul
\* byte, -1 standing for None.
position(name) ==
    LET hits == {i \in 1 .. Len(name) : name[i] = 0}
    IN IF hits = {} THEN -1
       ELSE (CHOOSE i \in hits : \A j \in hits : i <= j) - 1

nul_terminated(name) ==
    IF position(name) = -1 THEN FALSE ELSE (position(name) + 1) = Len(name)

\* Mutant: any nul byte in the buffer is taken for the terminator.
detect_feature_AnyNul(name, resp, debug) ==
    IF position(name) = -1
    THEN [queried |-> FALSE, panicked |-> FALSE, result |-> FALSE]
    ELSE IF resp.rc # 0
    THEN [queried |-> TRUE, panicked |-> FALSE, result |-> FALSE]
    ELSE IF debug /\ resp.len # SizeOfCInt
    THEN [queried |-> TRUE, panicked |-> TRUE, result |-> FALSE]
    ELSE IF resp.len # SizeOfCInt
    THEN [queried |-> TRUE, panicked |-> FALSE, result |-> FALSE]
    ELSE [queried |-> TRUE, panicked |-> FALSE, result |-> (resp.value # 0)]

\* detect_feature(name), given the answer `resp` sysctlbyname has for the
\* name and whether debug assertions are compiled in.  queried: sysctlbyname
\* was called; panicked: debug_assert_eq! failed; result: the bool returned.
detect_feature(name, resp, debug) ==
    IF ~nul_terminated(name)
    THEN [queried |-> FALSE, panicked |-> FALSE, result |-> FALSE]
    ELSE IF resp.rc # 0
    THEN [queried |-> TRUE, panicked |-> FALSE, result |-> FALSE]
    ELSE IF debug /\ resp.len # SizeOfCInt
    THEN [queried |-> TRUE, panicked |-> TRUE, result |-> FALSE]
    ELSE IF resp.len # SizeOfCInt
    THEN [queried |-> TRUE, panicked |-> FALSE, result |-> FALSE]
    ELSE [queried |-> TRUE, panicked |-> FALSE, result |-> (resp.value # 0)]

\* Mutant: the bit of AES is set for the SHA-512 query.
darwin_detect_features_WrongBit(resp, debug) ==
    LET r == detect_feature(SHA512_NAME, resp, debug)
    IN [panicked |-> r.panicked,
        features |-> IF r.result THEN BitOr({}, AES.mask) ELSE {}]

\* darwin::detect_features(): the outcome of the one detect_feature call and
\* the mask returned when it does not panic.
darwin_detect_features(resp, debug) ==
    LET r == detect_feature(SHA512_NAME, resp, debug)
    IN [panicked |-> r.panicked,
        features |-> IF r.result THEN BitOr({}, SHA512.mask) ELSE {}]

\* detect_features() of linux.rs, fuchsia.rs and windows.rs (not part of the
\* sources at hand): the OR of the masks of the features the OS reports.
\* The reports tried are: no feature, any one feature, every feature.
OtherDetectResults(c) ==
    {{}} \cup {f.mask : f \in FeatureSet(c.arch)}
         \cup {UNION {f.mask : f \in FeatureSet(c.arch)}}

\* ------------------------------------------------- Capability Initializer
\* Mutant: the no-hw flag masks with NEON.mask instead of !NEON.mask.
filtered_NeonNotNegated(c) ==
    BitOr(IF c.noHw
          THEN BitAnd(UNION {f.mask : f \in FeatureSet(c.arch)}, NEON.mask)
          ELSE {},
          IF c.noNeon THEN NEON.mask ELSE {})

\* The test-only cargo features read by init().
filtered(c) ==
    BitOr(IF c.noHw
          THEN BitAnd(UNION {f.mask : f \in FeatureSet(c.arch)}, BitNot(NEON.mask))
          ELSE {},
          IF c.noNeon THEN NEON.mask ELSE {})

\* Mutant: the static mask is left out of the merge.
merged_DetectedOnly(c, detected) == BitAnd(detected, BitNot(filtered(c)))

\* Mutant: the filter keeps the suppressed bits instead of removing them.
merged_FilterInverted(c, detected) ==
    BitOr(ARMCAP_STATIC(c), BitAnd(detected, filtered(c)))

\* Mutant: the filter is ORed into the word instead of masking the detected
\* bits.
merged_FilterOredIn(c, detected) ==
    BitOr(ARMCAP_STATIC(c), BitOr(detected, filtered(c)))

\* init(): the value written to OPENSSL_armcap_P for what was detected.
merged(c, detected) ==
    BitOr(ARMCAP_STATIC(c), BitAnd(detected, BitNot(filtered(c))))

\* featureflags::get: a plain read of OPENSSL_armcap_P.
get(p) == p

\* Mutant: no static shortcut, and the word is compared with the mask
\* instead of being tested for containing it.
available_ExactMatch(self, c, p) == self.mask = get(p)

\* Mutant: a mask counts as contained when any of its bits is present.
available_AnyBit(self, c, p) ==
    IF BitAnd(self.mask, ARMCAP_STATIC(c)) # {} THEN TRUE
    ELSE BitAnd(self.mask, get(p)) # {}

\* Feature::available
available(self, c, p) ==
    IF self.mask = BitAnd(self.mask, ARMCAP_STATIC(c)) THEN TRUE
    ELSE self.mask = BitAnd(self.mask, get(p))

\* ------------------------------------------------------------------ state
VARIABLES
    cfg,        \* the compiled configuration: target, target features, flags
    build,      \* "pending", "accepted" or "rejected" by the const assertions
    status,     \* INIT: spin::Once<()>
    pc,         \* where each thread is in get_or_init()
    token,      \* the threads that hold a cpu::Features value
    raw,        \* `detected` of init(): what detect_features() returned
    sysctl,     \* the answer sysctlbyname gave to the Darwin detector
    queried,    \* whether the Darwin detector called sysctlbyname
    word,       \* OPENSSL_armcap_P
    initRuns,   \* how many times init() was entered
    writes,     \* how many times OPENSSL_armcap_P was written
    observed,   \* the values read from OPENSSL_armcap_P through a token
    lastAvail,  \* the last available() call: the feature and the answer
    dfName, dfResp, dfDebug, dfOut,  \* a direct call of detect_feature
    avMask, avWord, avOut            \* a direct call of Feature::available

mainVars == <<cfg, build, status, pc, token, raw, sysctl, queried, word, initRuns,
              writes, observed, lastAvail>>
dfVars == <<dfName, dfResp, dfDebug, dfOut>>
avVars == <<avMask, avWord, avOut>>
vars == <<cfg, build, status, pc, token, raw, sysctl, queried, word, initRuns,
          writes, observed, lastAvail, dfName, dfResp, dfDebug, dfOut,
          avMask, avWord, avOut>>

Threads == 1 .. NThreads

\* Every target (architecture, OS, pointer width, endianness), set of
\* declared target features and pair of test flags;
\* debug assertions are told apart where the code has one (darwin.rs).
Configs ==
    {c \in UNION {[os : TargetOses, arch : {a}, pointer_width : PointerWidths,
                   endian : Endians, tf : SUBSET TargetFeatureNames(a),
                   noHw : BOOLEAN, noNeon : BOOLEAN, debug : BOOLEAN] : a \in Archs} :
        c.debug => detect(c) = "darwin"}

NoAvail == [feature |-> "none", result |-> FALSE]
DfIdle == [done |-> FALSE, queried |-> FALSE, panicked |-> FALSE, result |-> FALSE]

Bump(n) == IF n < MaxCount THEN n + 1 ELSE MaxCount

InitMain(c) ==
    /\ cfg = c
    /\ build = "pending"
    /\ status = "INCOMPLETE"
    /\ pc = [t \in Threads |-> "idle"]
    /\ token = {}
    /\ raw = {}
    /\ sysctl = NoQuery
    /\ queried = FALSE
    /\ word = Uninit
    /\ initRuns = 0
    /\ writes = 0
    /\ observed = {}
    /\ lastAvail = NoAvail

InitDf(name, resp, debug) ==
    /\ dfName = name
    /\ dfResp = resp
    /\ dfDebug = debug
    /\ dfOut = DfIdle

AvIdle == [done |-> FALSE, result |-> FALSE]

InitAv(mask, p) ==
    /\ avMask = mask
    /\ avWord = p
    /\ avOut = AvIdle

Init ==
    /\ \E c \in Configs : InitMain(c)
    /\ InitDf(SHA512_NAME, NoQuery, FALSE)
    /\ InitAv({}, Uninit)

\* ---------------------------------------------------------------- actions
\* rustc evaluates the const assertions.
Compile ==
    /\ build = "pending"
    /\ build' = IF BuildAccepts(cfg) THEN "accepted" ELSE "rejected"
    /\ UNCHANGED <<cfg, status, pc, token, raw, sysctl, queried, word, initRuns,
                   writes, observed, lastAvail>>
    /\ UNCHANGED dfVars
    /\ UNCHANGED avVars

\* Mutant: init() is called directly instead of through INIT.call_once.
GetOrInit_NoOnce(t) ==
    /\ build = "accepted"
    /\ pc[t] = "idle"
    /\ pc' = [pc EXCEPT ![t] = "init_detect"]
    /\ initRuns' = Bump(initRuns)
    /\ UNCHANGED <<cfg, build, status, token, raw, sysctl, queried, word, writes,
                   observed, lastAvail>>
    /\ UNCHANGED dfVars
    /\ UNCHANGED avVars

\* Mutant: a caller that finds INIT running does not wait for it.
GetOrInit_NoWait(t) ==
    /\ build = "accepted"
    /\ pc[t] = "idle"
    /\ \/ /\ status = "INCOMPLETE"
          /\ status' = "RUNNING"
          /\ pc' = [pc EXCEPT ![t] = "init_detect"]
          /\ initRuns' = Bump(initRuns)
          /\ UNCHANGED token
       \/ /\ status \in {"RUNNING", "COMPLETE"}
          /\ token' = token \cup {t}
          /\ UNCHANGED <<status, pc, initRuns>>
       \/ /\ status = "PANICKED"
          /\ pc' = [pc EXCEPT ![t] = "panicked"]
          /\ UNCHANGED <<status, token, initRuns>>
    /\ UNCHANGED <<cfg, build, raw, sysctl, queried, word, writes, observed, lastAvail>>
    /\ UNCHANGED dfVars
    /\ UNCHANGED avVars

\* get_or_init(): INIT.call_once(...) as the caller finds INIT.  The first
\* caller takes INIT to RUNNING and enters init(); a caller that finds it
\* RUNNING waits; one that finds it COMPLETE returns a token at once; one
\* that finds it PANICKED panics.
GetOrInit(t) ==
    /\ build = "accepted"
    /\ pc[t] = "idle"
    /\ \/ /\ status = "INCOMPLETE"
          /\ status' = "RUNNING"
          /\ pc' = [pc EXCEPT ![t] = "init_detect"]
          /\ initRuns' = Bump(initRuns)
          /\ UNCHANGED token
       \/ /\ status = "RUNNING"
          /\ pc' = [pc EXCEPT ![t] = "wait"]
          /\ UNCHANGED <<status, token, initRuns>>
       \/ /\ status = "COMPLETE"
          /\ token' = token \cup {t}
          /\ UNCHANGED <<status, pc, initRuns>>
       \/ /\ status = "PANICKED"
          /\ pc' = [pc EXCEPT ![t] = "panicked"]
          /\ UNCHANGED <<status, token, initRuns>>
    /\ UNCHANGED <<cfg, build, raw, sysctl, queried, word, writes, observed, lastAvail>>
    /\ UNCHANGED dfVars
    /\ UNCHANGED avVars

\* A caller waiting in INIT.call_once sees the winner finish, or panic.
Wait(t) ==
    /\ pc[t] = "wait"
    /\ \/ /\ status = "COMPLETE"
          /\ pc' = [pc EXCEPT ![t] = "idle"]
          /\ token' = token \cup {t}
       \/ /\ status = "PANICKED"
          /\ pc' = [pc EXCEPT ![t] = "panicked"]
          /\ UNCHANGED token
    /\ UNCHANGED <<cfg, build, status, raw, sysctl, queried, word, initRuns, writes,
                   observed, lastAvail>>
    /\ UNCHANGED dfVars
    /\ UNCHANGED avVars

\* init(): let detected = detect::detect_features(), Darwin.
DetectDarwin(t) ==
    /\ pc[t] = "init_detect"
    /\ detect(cfg) = "darwin"
    /\ \E resp \in SysctlResponses :
          LET d == darwin_detect_features(resp, cfg.debug)
          IN /\ sysctl' = resp
             /\ queried' = detect_feature(SHA512_NAME, resp, cfg.debug).queried
             /\ IF d.panicked
                THEN /\ status' = "PANICKED"
                     /\ pc' = [pc EXCEPT ![t] = "panicked"]
                     /\ UNCHANGED raw
                ELSE /\ raw' = d.features
                     /\ pc' = [pc EXCEPT ![t] = "init_write"]
                     /\ UNCHANGED status
    /\ UNCHANGED <<cfg, build, token, word, initRuns, writes, observed, lastAvail>>
    /\ UNCHANGED dfVars
    /\ UNCHANGED avVars

\* init(): let detected = detect::detect_features(), the other detectors.
DetectOther(t) ==
    /\ pc[t] = "init_detect"
    /\ detect(cfg) # "darwin"
    /\ raw' \in (IF detect(cfg) = "fallback" THEN {{}} ELSE OtherDetectResults(cfg))
    /\ pc' = [pc EXCEPT ![t] = "init_write"]
    /\ UNCHANGED <<cfg, build, status, token, sysctl, queried, word, initRuns, writes,
                   observed, lastAvail>>
    /\ UNCHANGED dfVars
    /\ UNCHANGED avVars

\* init(): filter, merge and p.write(merged).
Write(t) ==
    /\ pc[t] = "init_write"
    /\ word' = merged(cfg, raw)
    /\ writes' = Bump(writes)
    /\ pc' = [pc EXCEPT ![t] = "init_finish"]
    /\ UNCHANGED <<cfg, build, status, token, raw, sysctl, queried, initRuns, observed,
                   lastAvail>>
    /\ UNCHANGED dfVars
    /\ UNCHANGED avVars

\* INIT.call_once returns in the thread that ran init(): INIT is COMPLETE and
\* get_or_init() returns a token.
Finish(t) ==
    /\ pc[t] = "init_finish"
    /\ status' = "COMPLETE"
    /\ token' = token \cup {t}
    /\ pc' = [pc EXCEPT ![t] = "idle"]
    /\ UNCHANGED <<cfg, build, raw, sysctl, queried, word, initRuns, writes, observed,
                   lastAvail>>
    /\ UNCHANGED dfVars
    /\ UNCHANGED avVars

\* featureflags::get(cpu), called by a thread that holds a token.
Get ==
    /\ token # {}
    /\ observed' = observed \cup {get(word)}
    /\ UNCHANGED <<cfg, build, status, pc, token, raw, sysctl, queried, word, initRuns,
                   writes, lastAvail>>
    /\ UNCHANGED dfVars
    /\ UNCHANGED avVars

\* Mutant: available() runs the merge and the write again.
Available_Writes(f) ==
    /\ token # {}
    /\ lastAvail' = [feature |-> f.name, result |-> available(f, cfg, word)]
    /\ observed' = observed \cup {get(word)}
    /\ word' = merged(cfg, {})
    /\ writes' = Bump(writes)
    /\ UNCHANGED <<cfg, build, status, pc, token, raw, sysctl, queried, initRuns>>
    /\ UNCHANGED dfVars
    /\ UNCHANGED avVars

\* feature.available(cpu), called by a thread that holds a token; the word is
\* read (through featureflags::get) when the static mask does not decide.
Available(f) ==
    /\ token # {}
    /\ lastAvail' = [feature |-> f.name, result |-> available(f, cfg, word)]
    /\ observed' = IF f.mask = BitAnd(f.mask, ARMCAP_STATIC(cfg))
                   THEN observed
                   ELSE observed \cup {get(word)}
    /\ UNCHANGED <<cfg, build, status, pc, token, raw, sysctl, queried, word, initRuns,
                   writes>>
    /\ UNCHANGED dfVars
    /\ UNCHANGED avVars

Next ==
    \/ Compile
    \/ \E t \in Threads : GetOrInit(t)
    \/ \E t \in Threads : Wait(t)
    \/ \E t \in Threads : DetectDarwin(t)
    \/ \E t \in Threads : DetectOther(t)
    \/ \E t \in Threads : Write(t)
    \/ \E t \in Threads : Finish(t)
    \/ Get
    \/ \E f \in FeatureSet(cfg.arch) : Available(f)

Spec == Init /\ [][Next]_vars

\* ------------------------------------- detect_feature called on any name
\* The bytes a name buffer is made of: nul and 'h'.
NameBytes == {0, SHA512_NAME[1]}
Names == UNION {[1 .. n -> NameBytes] : n \in 0 .. MaxNameLen}

InitDetectFeature ==
    /\ InitMain(CHOOSE c \in Configs : detect(c) = "darwin" /\ BuildAccepts(c))
    /\ \E name \in Names, resp \in SysctlResponses, debug \in BOOLEAN :
          InitDf(name, resp, debug)
    /\ InitAv({}, Uninit)

CallDetectFeature ==
    /\ ~dfOut.done
    /\ LET r == detect_feature(dfName, dfResp, dfDebug)
       IN dfOut' = [done |-> TRUE, queried |-> r.queried, panicked |-> r.panicked,
                    result |-> r.result]
    /\ UNCHANGED <<dfName, dfResp, dfDebug>>
    /\ UNCHANGED mainVars
    /\ UNCHANGED avVars

NextDetectFeature == CallDetectFeature

SpecDetectFeature == InitDetectFeature /\ [][NextDetectFeature]_vars

\* ------------------------------------------------- fair scheduling of Spec
\* Every thread inside get_or_init() keeps being scheduled: the detector's
\* query returns, init() goes on to its write, call_once completes, and a
\* waiting caller notices that INIT is no longer running.
Fairness ==
    \A t \in Threads :
        /\ WF_vars(DetectDarwin(t) \/ DetectOther(t))
        /\ WF_vars(Write(t))
        /\ WF_vars(Finish(t))
        /\ WF_vars(Wait(t))

FairSpec == Spec /\ Fairness

\* ------------------------------- Feature::available called on any mask
\* The bits a probed mask and a detector result are made of: those of NEON,
\* AES and SHA512.
ProbeBits == NEON.mask \cup AES.mask \cup SHA512.mask

\* available() is called on a mask of any of these bits, in any accepted
\* configuration, with the word init() publishes for some detector result.
InitAvailable ==
    /\ \E c \in {x \in Configs : BuildAccepts(x)} : InitMain(c)
    /\ InitDf(SHA512_NAME, NoQuery, FALSE)
    /\ \E mask \in SUBSET ProbeBits, detected \in SUBSET ProbeBits :
          InitAv(mask, merged(cfg, detected))

CallAvailable ==
    /\ ~avOut.done
    /\ avOut' = [done |-> TRUE,
                 result |-> available([name |-> "probe", target_feature_name |-> "",
                                       mask |-> avMask], cfg, avWord)]
    /\ UNCHANGED <<avMask, avWord>>
    /\ UNCHANGED mainVars
    /\ UNCHANGED dfVars

NextAvailable == CallAvailable

SpecAvailable == InitAvailable /\ [][NextAvailable]_vars

\* ------------------------------------------------------------------ claims
\* The static mask, and what the test flags suppress, as the claims word it.
StaticMask == ARMCAP_STATIC(cfg)
TestSuppressionMask ==
    (IF cfg.noHw THEN {b \in Bits : \E f \in FeatureSet(cfg.arch) : b \in f.mask} \ NEON.mask
     ELSE {})
    \cup (IF cfg.noNeon THEN NEON.mask ELSE {})
Running == {t \in Threads : pc[t] \in {"init_detect", "init_write", "init_finish"}}

\* C1: whatever the number and interleaving of get_or_init() calls, init()
\* (detection and the init body) is entered at most once and by one thread
\* at a time, exactly once when a token was returned, and all values read
\* through tokens are one and the same.
C1_SingleExecution ==
    /\ initRuns <= 1
    /\ Cardinality(Running) <= 1
    /\ (status = "INCOMPLETE") <=> (initRuns = 0)
    /\ token # {} => initRuns = 1
    /\ Cardinality(observed) <= 1

C1_Witness ==
    /\ token = Threads
    /\ initRuns = 1
    /\ observed # {}

\* C2: nobody holds a token while INIT is not COMPLETE, a caller that finds
\* init() running holds none while it waits, and every value read through a
\* token is the written, final word, never the contents before the write.
C2_NoTokenBeforeInitialized ==
    /\ token # {} => (status = "COMPLETE" /\ word # Uninit)
    /\ \A t \in Threads : pc[t] = "wait" => t \notin token
    /\ \A v \in observed : v # Uninit /\ v = word

C2_Witness ==
    \E t \in Threads :
        /\ pc[t] = "wait"
        /\ status = "RUNNING"
        /\ word # Uninit

\* C3: the word a token gives access to, and every value read through a
\* token, contains every bit of the static mask.
C3_WordSupersetOfStatic ==
    /\ token # {} => BitAnd(word, StaticMask) = StaticMask
    /\ \A v \in observed : BitAnd(v, StaticMask) = StaticMask

C3_Witness ==
    /\ observed # {}
    /\ cfg.noHw /\ cfg.noNeon
    /\ StaticMask # {}
    /\ BitAnd(raw, StaticMask) = {}

\* C4: available() answers true for every feature whose mask lies within the
\* static mask.
C4_StaticFeatureAvailable ==
    \A f \in FeatureSet(cfg.arch) :
        (lastAvail.feature = f.name /\ f.mask \subseteq StaticMask) => lastAvail.result

C4_Witness ==
    /\ lastAvail.feature = "AES"
    /\ AES.mask \subseteq StaticMask
    /\ cfg.noHw
    /\ BitAnd(raw, AES.mask) = {}
    /\ lastAvail.result

\* C5: the word is written at most once, exactly once when a token was
\* returned, it holds no value before that write, and no step changes it
\* after the write.
C5_WrittenOnce ==
    /\ [](/\ writes <= 1
          /\ (writes = 0) <=> (word = Uninit)
          /\ token # {} => writes = 1)
    /\ [][word # Uninit => word' = word]_vars

C5_Witness ==
    /\ writes = 1
    /\ token = Threads
    /\ lastAvail.feature # "none"
    /\ observed = {word}

\* C6: the published word is made of the bits of the static mask and of the
\* detected bits that the test flags do not suppress.
C6_PublishedValue ==
    word # Uninit => word = StaticMask \cup (raw \ TestSuppressionMask)

C6_Witness ==
    /\ word # Uninit
    /\ cfg.noHw /\ ~cfg.noNeon
    /\ (raw \cap TestSuppressionMask) \ StaticMask # {}
    /\ StaticMask \ raw # {}

\* C7, as claimed: available() answers false for every feature that the
\* test flags suppress, even when the detector reports it.
C7_SuppressedIsUnavailable ==
    \A f \in FeatureSet(cfg.arch) :
        (/\ lastAvail.feature = f.name
         /\ f.mask \subseteq TestSuppressionMask
         /\ f.mask \subseteq raw) => ~lastAvail.result

\* C7, amended: available() answers false for every feature that the test
\* flags suppress and whose mask does not lie within the static mask, even
\* when the detector reports it.
C7_SuppressedNonStaticIsUnavailable ==
    \A f \in FeatureSet(cfg.arch) :
        (/\ lastAvail.feature = f.name
         /\ f.mask \subseteq TestSuppressionMask
         /\ ~(f.mask \subseteq StaticMask)
         /\ f.mask \subseteq raw) => ~lastAvail.result

C7_Witness ==
    /\ lastAvail.feature = "SHA512"
    /\ cfg.noHw
    /\ SHA512.mask \subseteq raw
    /\ ~(SHA512.mask \subseteq StaticMask)
    /\ ~lastAvail.result

\* C8: in the Darwin detector a failed query (a return code other than 0, or
\* a length other than the size of the integer) gives 'absent' and nothing
\* panics.
C8_QueryFailureIsAbsent ==
    (/\ detect(cfg) = "darwin"
     /\ queried
     /\ (sysctl.rc # 0 \/ sysctl.len # SizeOfCInt))
    => (/\ status # "PANICKED"
        /\ \A t \in Threads : pc[t] # "panicked"
        /\ raw = {})

\* A name buffer with no nul byte, or with a nul byte before its last byte.
Malformed(name) ==
    \/ \A i \in 1 .. Len(name) : name[i] # 0
    \/ \E i \in 1 .. (Len(name) - 1) : name[i] = 0

\* C9: detect_feature on a malformed name never calls sysctlbyname, returns
\* false and does not panic.
C9_MalformedNameRejected ==
    (dfOut.done /\ Malformed(dfName)) =>
        (~dfOut.queried /\ ~dfOut.result /\ ~dfOut.panicked)

C9_Witness ==
    /\ dfOut.done
    /\ Len(dfName) >= 2
    /\ dfName[Len(dfName)] = 0
    /\ dfName[1] = 0
    /\ dfResp.rc = 0 /\ dfResp.len = SizeOfCInt /\ dfResp.value # 0
    /\ ~dfOut.queried

\* C10: in every configuration, accepted by the build or not yet compiled,
\* the static mask and the forced-dynamic mask share no bit.
C10_StaticDisjointFromForced ==
    BitAnd(ARMCAP_STATIC(cfg), FORCE_DYNAMIC_DETECTION(cfg)) = {}

C10_Witness ==
    /\ build = "accepted"
    /\ detect(cfg) = "darwin"
    /\ BitAnd(ARMCAP_STATIC_DETECTED(cfg), FORCE_DYNAMIC_DETECTION(cfg)) # {}

\* The Darwin detector's query succeeded and reported the extension present.
QueryReportsPresent ==
    /\ detect(cfg) = "darwin"
    /\ queried
    /\ sysctl.rc = 0 /\ sysctl.len = SizeOfCInt /\ sysctl.value # 0

\* C11, as claimed: on Darwin, when the query reports SHA-512 present, the
\* published word is MIN_STATIC_FEATURES | SHA512.mask and available(SHA512)
\* answers true.
C11_DarwinSha512Published ==
    (QueryReportsPresent /\ word # Uninit) =>
        /\ word = MIN_STATIC_FEATURES \cup SHA512.mask
        /\ lastAvail.feature = "SHA512" => lastAvail.result

\* C11, amended: the same, when the no-hw test flag is not set.
C11_DarwinSha512PublishedUnlessSuppressed ==
    (QueryReportsPresent /\ word # Uninit /\ ~cfg.noHw) =>
        /\ word = MIN_STATIC_FEATURES \cup SHA512.mask
        /\ Value(word) = 1 + 4 + 16 + 32 + 64
        /\ lastAvail.feature = "SHA512" => lastAvail.result

C11_Witness ==
    /\ QueryReportsPresent
    /\ ~cfg.noHw
    /\ word # Uninit
    /\ lastAvail.feature = "SHA512"
    /\ lastAvail.result

\* A 64-bit build that declares no optional target feature, on hardware for
\* which the detector reports no optional extension.
ScenarioA ==
    /\ cfg.arch = "aarch64"
    /\ cfg.tf = {"neon"}
    /\ build = "accepted"
    /\ word # Uninit
    /\ raw \subseteq NEON.mask

\* C12: in scenario A the published word is the NEON bit alone,
\* available(AES) answers false and available(NEON) answers true.
C12_ScenarioA ==
    ScenarioA =>
        /\ word = NEON.mask
        /\ Value(word) = 1
        /\ lastAvail.feature = "AES" => ~lastAvail.result
        /\ lastAvail.feature = "NEON" => lastAvail.result

C12_Witness ==
    /\ ScenarioA
    /\ cfg.noNeon
    /\ lastAvail.feature = "AES"
    /\ ~lastAvail.result

\* C13: the fallback detector returns 0 and raises nothing; and whenever a
\* detector returned 0 the published word is the static mask exactly,
\* whatever the test flags.
C13_NothingDetectedGivesStatic ==
    /\ detect(cfg) = "fallback" => (raw = {} /\ status # "PANICKED")
    /\ (word # Uninit /\ raw = {}) => word = StaticMask

C13_Witness ==
    /\ detect(cfg) = "linux"
    /\ cfg.noHw /\ cfg.noNeon
    /\ word # Uninit
    /\ raw = {}
    /\ token # {}

\* The numbers the external assembly code expects.
AbiMask(name) ==
    CASE name = "NEON" -> 1
      [] name = "AES" -> 4
      [] name = "SHA256" -> 16
      [] name = "PMULL" -> 32
      [] name = "SHA512" -> 64

\* C14: in the configuration at hand every feature has its ABI value, every
\* mask is one bit, and no two features share a bit.
C14_MaskAbi ==
    /\ \A f \in FeatureSet(cfg.arch) :
          /\ Value(f.mask) = AbiMask(f.name)
          /\ Cardinality(f.mask) = 1
          /\ f.mask \subseteq Bits
    /\ \A f, g \in FeatureSet(cfg.arch) : f.name # g.name => f.mask \cap g.mask = {}
    /\ Cardinality(FeatureSet(cfg.arch)) = Len(ALL_FEATURES(cfg.arch))

C14_Witness ==
    /\ cfg.arch = "aarch64"
    /\ word # Uninit
    /\ Value(word) = 1 + 4 + 16 + 32 + 64

InCall == {"init_detect", "init_write", "init_finish", "wait"}

\* C15: under fair scheduling nobody panics in get_or_init(), and every
\* caller that is inside get_or_init() eventually holds a token.
C15_EveryCallReturns ==
    /\ [](\A t \in Threads : pc[t] # "panicked")
    /\ \A t \in Threads : (pc[t] \in InCall) ~> (t \in token)

\* C16: available() on any mask answers true when the mask lies within the
\* static mask and otherwise exactly when the mask lies within the word; a
\* mask of which only some bits are present gets false.
C16_AvailableIsContainment ==
    avOut.done =>
        /\ avMask \subseteq StaticMask => avOut.result
        /\ ~(avMask \subseteq StaticMask) => (avOut.result <=> avMask \subseteq avWord)
        /\ (~(avMask \subseteq StaticMask) /\ ~(avMask \subseteq avWord)) => ~avOut.result

C16_Witness ==
    /\ avOut.done
    /\ Cardinality(avMask) >= 2
    /\ avMask \cap StaticMask # {}
    /\ avMask \cap avWord # {}
    /\ ~(avMask \subseteq avWord)
    /\ ~avOut.result

\* C17: a step that records an available() answer leaves the word, INIT,
\* every thread's position, the tokens and the detection results as they
\* were, and runs neither init() nor a write.
C17_AvailableIsPure ==
    [][lastAvail' # lastAvail =>
          UNCHANGED <<word, status, pc, token, raw, sysctl, queried, initRuns, writes,
                      cfg, build>>]_vars

C17_Witness ==
    /\ lastAvail.feature = "SHA512"
    /\ ~(SHA512.mask \subseteq StaticMask)
    /\ lastAvail.result
    /\ status = "COMPLETE"
    /\ initRuns = 1 /\ writes = 1

\* C18: the published word lies within StaticMask | RawMask: the test flags
\* add no bit.
C18_SuppressionOnlyRemoves ==
    word # Uninit =>
        /\ word \subseteq (StaticMask \cup raw)
        /\ \A b \in word : b \notin StaticMask => b \in raw

C18_Witness ==
    /\ word # Uninit
    /\ TestSuppressionMask \ (StaticMask \cup raw) # {}
    /\ raw \ StaticMask # {}
    /\ word # StaticMask \cup raw

\* The Darwin targets (64-bit pointers, little-endian): aes, neon and sha2
\* declared, sha3 declared or not.
DarwinTarget ==
    /\ detect(cfg) = "darwin"
    /\ cfg.pointer_width = 64
    /\ cfg.endian = "little"
    /\ {"neon", "aes", "sha2"} \subseteq cfg.tf

\* C19: the build accepts the Darwin targets with and without sha3; in every
\* Darwin build it accepts the static mask is MIN_STATIC_FEATURES, SHA512 is
\* not in it, and available(SHA512) is true only if the detector reported it.
C19_DarwinStaticIsMin ==
    /\ DarwinTarget => build # "rejected"
    /\ (detect(cfg) = "darwin" /\ build = "accepted") =>
          /\ StaticMask = MIN_STATIC_FEATURES
          /\ Value(StaticMask) = 1 + 4 + 16 + 32
          /\ ~(SHA512.mask \subseteq StaticMask)
          /\ (lastAvail.feature = "SHA512" /\ lastAvail.result) => SHA512.mask \subseteq raw

C19_Witness ==
    /\ DarwinTarget
    /\ "sha3" \in cfg.tf
    /\ build = "accepted"
    /\ lastAvail.feature = "SHA512"
    /\ lastAvail.result

\* C20: the answer of available() is whether the mask lies within the
\* published word: the static shortcut never changes it.
C20_FastPathAgrees ==
    \A f \in FeatureSet(cfg.arch) :
        lastAvail.feature = f.name => (lastAvail.result <=> f.mask \subseteq word)

C20_Witness ==
    /\ lastAvail.feature = "AES"
    /\ AES.mask \subseteq StaticMask
    /\ ~(AES.mask \subseteq raw)
    /\ cfg.noHw
    /\ lastAvail.result
====
